---- MODULE Spec2Model ----
(***************************************************************************)
(* State-machine model of the Telegram scripts of seedclub/pi-extension:   *)
(* the three-phase login (scripts/login.py), the session store             *)
(* (scripts/_client.py), the watermark store (scripts/_watermarks.py), the *)
(* watermark-driven digest (scripts/digest.py), logout                     *)
(* (scripts/logout.py) and the bulk sync (scripts/sync-all.py,             *)
(* scripts/_sync.py).                                                      *)
(*                                                                         *)
(* Every script invocation is one process.  A process is modelled by its   *)
(* position pc, its arguments, its locals and its client object; it steps  *)
(* at the boundaries of remote calls and of file writes.  The three JSON   *)
(* files outlive the processes.  The remote service is the environment:    *)
(* each remote call ends in one of the outcomes the code distinguishes,    *)
(* chosen nondeterministically.                                            *)
(***************************************************************************)
EXTENDS Integers, Sequences, FiniteSets, TLC

VARIABLES
  session,      \* session.json
  pending,      \* pending.json
  watermarks,   \* watermarks.json
  now,          \* the clock read by datetime.now()
  peer,         \* remote service: per dialog, the bare id of its entity
  top,          \* remote service: per dialog, the highest message id sent
  msgs,         \* remote service: per dialog, the ids of its messages
  unread,       \* remote service: per dialog, its unread_count
  pc,           \* position of the current process
  cmd,          \* the script / subcommand the current process runs
  args,         \* its command-line arguments
  lcl,          \* its local variables
  client,       \* its TelegramClient: connection state and session string
  calls,        \* the remote calls it has made, in order
  out,          \* the JSON objects it has printed on standard output
  pre,          \* the three files as they were when it started
  expired       \* history: a sign-in ended CODE_EXPIRED and no request-code
                \* has completed since

vars == <<session, pending, watermarks, now, peer, top, msgs, unread,
          pc, cmd, args, lcl, client, calls, out, pre, expired>>

-----------------------------------------------------------------------------
(* Bounds of the model *)

MaxCred == 2
MaxTime == 1
MaxMsgId == 2
MaxUnread == 1

(* The dialogs of the account.  Bare entity ids are unique within a peer *)
(* type only, so a user and a channel may carry the same id.            *)

Dialogs == {"d1", "d2"}

None == "None"   \* Python's None, where the other values are strings
NoName == <<>>   \* None or "" where the other values are names
NoId == -1       \* None where the other values are message ids

Entity ==
  [d1 |-> [cls |-> "User", bot |-> FALSE, username |-> NoName,
           name |-> <<"A", "l">>],
   d2 |-> [cls |-> "Channel", broadcast |-> TRUE, username |-> <<"B", "o">>,
           name |-> <<"N", "e", "w", "s">>]]

DistinctPeers == [d1 |-> 111, d2 |-> 222]
SamePeers == [d1 |-> 111, d2 |-> 111]

(* Input domains *)

Phones == {"+100", "+200"}
AppCreds == {[apiId |-> 11, apiHash |-> "ha"], [apiId |-> 12, apiHash |-> "hb"]}
CodeHashes == {"h1", "h2"}
Creds == 1..MaxCred          \* non-empty serialized session strings
EmptyCred == 0               \* the empty session string of StringSession()

-----------------------------------------------------------------------------
(* Files *)

Absent == [kind |-> "absent"]
Corrupt == [kind |-> "corrupt"]        \* text that is not JSON
Undecodable == [kind |-> "binary"]     \* bytes that are not text: read_text
                                       \* raises UnicodeDecodeError
NotObject == [kind |-> "array"]        \* JSON text of a value that is no
                                       \* object: []
Json(d) == [kind |-> "json", data |-> d]

(* Python values that are no dict, where the other values are dicts *)
PyList == [py |-> "list"]
PyInt == [py |-> "int"]
is_dict(v) == "py" \notin DOMAIN v

(* dict.get(key, default) *)
Get(d, key, default) == IF key \in DOMAIN d THEN d[key] ELSE default

(* save_pending / clear_pending / save_session *)
save_pending(data) == Json(data)

clear_pending == Absent

(* Mutant: the credential string the process started from is stored, not *)
(* the final one                                                        *)
save_session_stale(api_id, api_hash, phone, session_string) ==
  Json([apiId |-> api_id, apiHash |-> api_hash, phone |-> phone,
        sessionString |-> lcl.session_string, authenticatedAt |-> now])

save_session(api_id, api_hash, phone, session_string) ==
  Json([apiId |-> api_id, apiHash |-> api_hash, phone |-> phone,
        sessionString |-> session_string, authenticatedAt |-> now])

(* load_pending: "ok" with the value json.loads returns, or the NO_PENDING *)
(* error; every exception of read_text and json.loads is caught           *)
load_pending ==
  CASE pending.kind = "absent"  -> [ok |-> FALSE, code |-> "NO_PENDING"]
    [] pending.kind = "corrupt" -> [ok |-> FALSE, code |-> "NO_PENDING"]
    [] pending.kind = "binary"  -> [ok |-> FALSE, code |-> "NO_PENDING"]
    [] pending.kind = "array"   -> [ok |-> TRUE, data |-> PyList]
    [] OTHER                    -> [ok |-> TRUE, data |-> pending.data]

-----------------------------------------------------------------------------
(* Processes *)

NoClient == [conn |-> "none", sess |-> EmptyCred]
NoLocals == [none |-> TRUE]

Exited == pc \in {"exit0", "exit1", "crash", "killed", "returned"}

ErrorObj(code) == [error |-> TRUE, code |-> code]

(* A fresh process: nothing printed, no client, the files as found *)
Start(c, a, first) ==
  /\ pc = "idle"
  /\ cmd' = c
  /\ args' = a
  /\ pc' = first
  /\ lcl' = NoLocals
  /\ client' = NoClient
  /\ calls' = <<>>
  /\ out' = <<>>
  /\ pre' = [session |-> session, pending |-> pending, watermarks |-> watermarks]
  /\ UNCHANGED <<session, pending, watermarks, now, peer, top, msgs, unread, expired>>

(* error(msg, code): print {error, code}, exit 1 *)
error(code) ==
  /\ out' = Append(out, ErrorObj(code))
  /\ pc' = "exit1"

(* output(data): print data, exit 0 *)
output(data) ==
  /\ out' = Append(out, data)
  /\ pc' = "exit0"

Files == <<session, pending, watermarks>>
Remote == <<peer, top, msgs, unread>>
Proc == <<cmd, args, pre>>
Hist == <<expired>>

-----------------------------------------------------------------------------
(* login.py request-code *)

Invoke_request_code ==
  \E phone \in Phones, cred \in AppCreds :
    Start("request-code", [phone |-> phone, api_id |-> cred.apiId,
                            api_hash |-> cred.apiHash], "rc_connect")

request_code_connect_ok ==
  /\ pc = "rc_connect"
  /\ \E s \in Creds : client' = [conn |-> "open", sess |-> s]
  /\ calls' = Append(calls, "connect")
  /\ pc' = "rc_send"
  /\ UNCHANGED <<Hist, Files, Remote, Proc, now, lcl, out>>

request_code_connect_fail ==
  /\ pc = "rc_connect"
  /\ calls' = Append(calls, "connect")
  /\ error("CONNECTION_ERROR")
  /\ UNCHANGED <<Hist, Files, Remote, Proc, now, lcl, client>>

(* Mutant: a failed send_code_request drops the pending file *)
request_code_send_fail_clears ==
  /\ pc = "rc_send"
  /\ calls' = Append(calls, "send_code_request")
  /\ \E code \in {"INVALID_PHONE", "FLOOD_WAIT", "CODE_SEND_ERROR"} : error(code)
  /\ pending' = clear_pending
  /\ UNCHANGED <<Hist, session, watermarks, Remote, Proc, now, lcl, client>>

request_code_send_fail ==
  /\ pc = "rc_send"
  /\ calls' = Append(calls, "send_code_request")
  /\ \E code \in {"INVALID_PHONE", "FLOOD_WAIT", "CODE_SEND_ERROR"} : error(code)
  /\ UNCHANGED <<Hist, Files, Remote, Proc, now, lcl, client>>

(* send_code_request succeeded; session.save(); disconnect *)
request_code_send_ok ==
  /\ pc = "rc_send"
  /\ \E h \in CodeHashes, s \in Creds :
       /\ lcl' = [phone_code_hash |-> h, session_string |-> s]
       /\ client' = [conn |-> "closed", sess |-> s]
  /\ calls' = calls \o <<"send_code_request", "disconnect">>
  /\ pc' = "rc_save"
  /\ UNCHANGED <<Hist, Files, Remote, Proc, now, out>>

(* Mutant: the new attempt's fields are merged into the stored dict *)
request_code_pending_merged ==
  LET new == [phone |-> args.phone,
              phoneCodeHash |-> lcl.phone_code_hash,
              sessionString |-> lcl.session_string,
              apiId |-> args.api_id,
              apiHash |-> args.api_hash]
  IN IF pending.kind = "json" THEN new @@ pending.data ELSE new

(* the dict request-code hands to save_pending *)
request_code_pending ==
  [phone |-> args.phone,
   phoneCodeHash |-> lcl.phone_code_hash,
   sessionString |-> lcl.session_string,
   apiId |-> args.api_id,
   apiHash |-> args.api_hash]

request_code_save ==
  /\ pc = "rc_save"
  /\ pending' = save_pending(request_code_pending)
  /\ output([status |-> "code_sent", phone |-> args.phone])
  /\ expired' = FALSE
  /\ UNCHANGED <<session, watermarks, Remote, Proc, now, lcl, client, calls>>

cmd_request_code ==
  \/ request_code_connect_ok
  \/ request_code_connect_fail
  \/ request_code_send_fail
  \/ request_code_send_ok
  \/ request_code_save

-----------------------------------------------------------------------------
(* The remote service's verdict on a code or a password.  "right" stands for *)
(* the value the service expects, "wrong" for any other.                     *)

Codes == {"right", "wrong"}
Passwords == {"right", "wrong"}

SignInOutcomes(code) ==
  IF code = "right" THEN {"ok", "password_needed", "expired", "other"}
                    ELSE {"invalid", "expired", "other"}

PasswordOutcomes(password) ==
  IF password = "right" THEN {"ok", "other"} ELSE {"invalid", "other"}

(* client.connect() on a client built from StringSession(session_string): a *)
(* fresh session gets its keys from the handshake, a stored one is resumed  *)
Connected(session_string) ==
  IF session_string = EmptyCred
    THEN {[conn |-> "open", sess |-> s] : s \in Creds}
    ELSE {[conn |-> "open", sess |-> session_string]}

-----------------------------------------------------------------------------
(* login.py sign-in *)

Invoke_sign_in ==
  \E code \in Codes : Start("sign-in", [code |-> code], "si_load")

PendingKeysSignIn == {"phone", "phoneCodeHash", "apiId", "apiHash"}

sign_in_load ==
  /\ pc = "si_load"
  /\ LET r == load_pending IN
       IF ~r.ok
         THEN error(r.code) /\ UNCHANGED lcl
         ELSE IF ~is_dict(r.data) \/ ~(PendingKeysSignIn \subseteq DOMAIN r.data)
           THEN pc' = "crash" /\ UNCHANGED <<lcl, out>>
           ELSE /\ lcl' = [pending |-> r.data,
                           phone |-> r.data.phone,
                           phone_code_hash |-> r.data.phoneCodeHash,
                           api_id |-> r.data.apiId,
                           api_hash |-> r.data.apiHash,
                           session_string |-> Get(r.data, "sessionString", EmptyCred)]
                /\ pc' = "si_connect"
                /\ UNCHANGED out
  /\ UNCHANGED <<Hist, Files, Remote, Proc, now, client, calls>>

sign_in_connect_ok ==
  /\ pc = "si_connect"
  /\ client' \in Connected(lcl.session_string)
  /\ calls' = Append(calls, "connect")
  /\ pc' = "si_sign_in"
  /\ UNCHANGED <<Hist, Files, Remote, Proc, now, lcl, out>>

sign_in_connect_fail ==
  /\ pc = "si_connect"
  /\ calls' = Append(calls, "connect")
  /\ error("CONNECTION_ERROR")
  /\ UNCHANGED <<Hist, Files, Remote, Proc, now, lcl, client>>

(* Mutant: the new credential string is stored, the phase marker is not *)
two_factor_pending_no_phase(p, s) ==
  [k \in DOMAIN p \cup {"sessionString"} |->
     IF k = "sessionString" THEN s ELSE p[k]]

(* pending["sessionString"] = client.session.save(); pending["phase"] = "2fa" *)
two_factor_pending(p, s) ==
  [k \in DOMAIN p \cup {"sessionString", "phase"} |->
     CASE k = "sessionString" -> s
       [] k = "phase" -> "2fa"
       [] OTHER -> p[k]]

(* SessionPasswordNeededError: keep the pending file, now in phase "2fa" *)
(* Mutant: the 2FA-pending credential is stored as the session as well *)
sign_in_password_needed_saves ==
  /\ pc = "si_sign_in"
  /\ "password_needed" \in SignInOutcomes(args.code)
  /\ \E s \in Creds :
       LET p == two_factor_pending(lcl.pending, s)
       IN /\ client' = [conn |-> "closed", sess |-> s]
          /\ lcl' = [lcl EXCEPT !.pending = p]
          /\ pending' = save_pending(p)
          /\ session' = save_session(lcl.api_id, lcl.api_hash, lcl.phone, s)
  /\ calls' = calls \o <<"sign_in", "disconnect">>
  /\ output([status |-> "2fa_required"])
  /\ UNCHANGED <<Hist, watermarks, Remote, Proc, now>>

sign_in_password_needed ==
  /\ pc = "si_sign_in"
  /\ "password_needed" \in SignInOutcomes(args.code)
  /\ \E s \in Creds :
       LET p == two_factor_pending(lcl.pending, s)
       IN /\ client' = [conn |-> "closed", sess |-> s]
          /\ lcl' = [lcl EXCEPT !.pending = p]
          /\ pending' = save_pending(p)
  /\ calls' = calls \o <<"sign_in", "disconnect">>
  /\ output([status |-> "2fa_required"])
  /\ UNCHANGED <<Hist, session, watermarks, Remote, Proc, now>>

(* Mutant: an invalid code clears the pending file, as an expired one does *)
sign_in_code_invalid_clears ==
  /\ pc = "si_sign_in"
  /\ "invalid" \in SignInOutcomes(args.code)
  /\ client' = [client EXCEPT !.conn = "closed"]
  /\ calls' = calls \o <<"sign_in", "disconnect">>
  /\ pending' = clear_pending
  /\ error("INVALID_CODE")
  /\ UNCHANGED <<Hist, session, watermarks, Remote, Proc, now, lcl>>

(* PhoneCodeInvalidError *)
sign_in_code_invalid ==
  /\ pc = "si_sign_in"
  /\ "invalid" \in SignInOutcomes(args.code)
  /\ client' = [client EXCEPT !.conn = "closed"]
  /\ calls' = calls \o <<"sign_in", "disconnect">>
  /\ error("INVALID_CODE")
  /\ UNCHANGED <<Hist, Files, Remote, Proc, now, lcl>>

(* Mutant: an expired code leaves the pending file in place *)
sign_in_code_expired_keeps ==
  /\ pc = "si_sign_in"
  /\ "expired" \in SignInOutcomes(args.code)
  /\ client' = [client EXCEPT !.conn = "closed"]
  /\ calls' = calls \o <<"sign_in", "disconnect">>
  /\ error("CODE_EXPIRED")
  /\ expired' = TRUE
  /\ UNCHANGED <<Files, Remote, Proc, now, lcl>>

(* PhoneCodeExpiredError *)
sign_in_code_expired ==
  /\ pc = "si_sign_in"
  /\ "expired" \in SignInOutcomes(args.code)
  /\ client' = [client EXCEPT !.conn = "closed"]
  /\ calls' = calls \o <<"sign_in", "disconnect">>
  /\ pending' = clear_pending
  /\ error("CODE_EXPIRED")
  /\ expired' = TRUE
  /\ UNCHANGED <<session, watermarks, Remote, Proc, now, lcl>>

(* any other exception of sign_in *)
sign_in_other_error ==
  /\ pc = "si_sign_in"
  /\ "other" \in SignInOutcomes(args.code)
  /\ client' = [client EXCEPT !.conn = "closed"]
  /\ calls' = calls \o <<"sign_in", "disconnect">>
  /\ error("SIGN_IN_ERROR")
  /\ UNCHANGED <<Hist, Files, Remote, Proc, now, lcl>>

(* sign_in returned: final_session = client.session.save() *)
sign_in_ok ==
  /\ pc = "si_sign_in"
  /\ "ok" \in SignInOutcomes(args.code)
  /\ \E s \in Creds :
       /\ client' = [conn |-> "open", sess |-> s]
       /\ lcl' = [k \in DOMAIN lcl \cup {"final_session"} |->
                    IF k = "final_session" THEN s ELSE lcl[k]]
  /\ calls' = Append(calls, "sign_in")
  /\ pc' = "si_get_me"
  /\ UNCHANGED <<Hist, Files, Remote, Proc, now, out>>

(* get_me raised: nothing catches it *)
sign_in_get_me_fail ==
  /\ pc = "si_get_me"
  /\ calls' = Append(calls, "get_me")
  /\ pc' = "crash"
  /\ UNCHANGED <<Hist, Files, Remote, Proc, now, lcl, client, out>>

(* get_me returned; disconnect; clear_pending *)
sign_in_get_me_ok ==
  /\ pc = "si_get_me"
  /\ client' = [client EXCEPT !.conn = "closed"]
  /\ calls' = calls \o <<"get_me", "disconnect">>
  /\ pending' = clear_pending
  /\ pc' = "si_save"
  /\ UNCHANGED <<Hist, session, watermarks, Remote, Proc, now, lcl, out>>

sign_in_save ==
  /\ pc = "si_save"
  /\ session' = save_session(lcl.api_id, lcl.api_hash, lcl.phone, lcl.final_session)
  /\ output([success |-> TRUE, phone |-> lcl.phone])
  /\ UNCHANGED <<Hist, pending, watermarks, Remote, Proc, now, lcl, client, calls>>

cmd_sign_in ==
  \/ sign_in_load
  \/ sign_in_connect_ok
  \/ sign_in_connect_fail
  \/ sign_in_password_needed
  \/ sign_in_code_invalid
  \/ sign_in_code_expired
  \/ sign_in_other_error
  \/ sign_in_ok
  \/ sign_in_get_me_fail
  \/ sign_in_get_me_ok
  \/ sign_in_save

-----------------------------------------------------------------------------
(* login.py sign-in-2fa *)

Invoke_sign_in_2fa ==
  \E password \in Passwords :
    Start("sign-in-2fa", [password |-> password], "tf_load")

PendingKeys2fa == {"phone", "apiId", "apiHash", "sessionString"}

(* Mutant: the phase marker is not looked at *)
in_2fa_phase_unchecked(p) == TRUE

(* pending.get("phase") == "2fa" *)
in_2fa_phase(p) == Get(p, "phase", None) = "2fa"

sign_in_2fa_load ==
  /\ pc = "tf_load"
  /\ LET r == load_pending IN
       IF ~r.ok
         THEN error(r.code) /\ UNCHANGED lcl
         ELSE IF ~is_dict(r.data)
           THEN pc' = "crash" /\ UNCHANGED <<lcl, out>>
         ELSE IF ~in_2fa_phase(r.data)
           THEN error("NOT_IN_2FA") /\ UNCHANGED lcl
           ELSE IF ~(PendingKeys2fa \subseteq DOMAIN r.data)
             THEN pc' = "crash" /\ UNCHANGED <<lcl, out>>
             ELSE /\ lcl' = [pending |-> r.data,
                             phone |-> r.data.phone,
                             api_id |-> r.data.apiId,
                             api_hash |-> r.data.apiHash,
                             session_string |-> r.data.sessionString]
                  /\ pc' = "tf_connect"
                  /\ UNCHANGED out
  /\ UNCHANGED <<Hist, Files, Remote, Proc, now, client, calls>>

sign_in_2fa_connect_ok ==
  /\ pc = "tf_connect"
  /\ client' \in Connected(lcl.session_string)
  /\ calls' = Append(calls, "connect")
  /\ pc' = "tf_sign_in"
  /\ UNCHANGED <<Hist, Files, Remote, Proc, now, lcl, out>>

sign_in_2fa_connect_fail ==
  /\ pc = "tf_connect"
  /\ calls' = Append(calls, "connect")
  /\ error("CONNECTION_ERROR")
  /\ UNCHANGED <<Hist, Files, Remote, Proc, now, lcl, client>>

(* Mutant: a wrong password clears the pending file *)
sign_in_2fa_password_invalid_clears ==
  /\ pc = "tf_sign_in"
  /\ "invalid" \in PasswordOutcomes(args.password)
  /\ client' = [client EXCEPT !.conn = "closed"]
  /\ calls' = calls \o <<"sign_in", "disconnect">>
  /\ pending' = clear_pending
  /\ error("INVALID_2FA")
  /\ UNCHANGED <<Hist, session, watermarks, Remote, Proc, now, lcl>>

(* PasswordHashInvalidError *)
sign_in_2fa_password_invalid ==
  /\ pc = "tf_sign_in"
  /\ "invalid" \in PasswordOutcomes(args.password)
  /\ client' = [client EXCEPT !.conn = "closed"]
  /\ calls' = calls \o <<"sign_in", "disconnect">>
  /\ error("INVALID_2FA")
  /\ UNCHANGED <<Hist, Files, Remote, Proc, now, lcl>>

sign_in_2fa_other_error ==
  /\ pc = "tf_sign_in"
  /\ "other" \in PasswordOutcomes(args.password)
  /\ client' = [client EXCEPT !.conn = "closed"]
  /\ calls' = calls \o <<"sign_in", "disconnect">>
  /\ error("SIGN_IN_ERROR")
  /\ UNCHANGED <<Hist, Files, Remote, Proc, now, lcl>>

sign_in_2fa_ok ==
  /\ pc = "tf_sign_in"
  /\ "ok" \in PasswordOutcomes(args.password)
  /\ \E s \in Creds :
       /\ client' = [conn |-> "open", sess |-> s]
       /\ lcl' = [k \in DOMAIN lcl \cup {"final_session"} |->
                    IF k = "final_session" THEN s ELSE lcl[k]]
  /\ calls' = Append(calls, "sign_in")
  /\ pc' = "tf_get_me"
  /\ UNCHANGED <<Hist, Files, Remote, Proc, now, out>>

sign_in_2fa_get_me_fail ==
  /\ pc = "tf_get_me"
  /\ calls' = Append(calls, "get_me")
  /\ pc' = "crash"
  /\ UNCHANGED <<Hist, Files, Remote, Proc, now, lcl, client, out>>

sign_in_2fa_get_me_ok ==
  /\ pc = "tf_get_me"
  /\ client' = [client EXCEPT !.conn = "closed"]
  /\ calls' = calls \o <<"get_me", "disconnect">>
  /\ pending' = clear_pending
  /\ pc' = "tf_save"
  /\ UNCHANGED <<Hist, session, watermarks, Remote, Proc, now, lcl, out>>

sign_in_2fa_save ==
  /\ pc = "tf_save"
  /\ session' = save_session(lcl.api_id, lcl.api_hash, lcl.phone, lcl.final_session)
  /\ output([success |-> TRUE, phone |-> lcl.phone])
  /\ UNCHANGED <<Hist, pending, watermarks, Remote, Proc, now, lcl, client, calls>>

cmd_sign_in_2fa ==
  \/ sign_in_2fa_load
  \/ sign_in_2fa_connect_ok
  \/ sign_in_2fa_connect_fail
  \/ sign_in_2fa_password_invalid
  \/ sign_in_2fa_other_error
  \/ sign_in_2fa_ok
  \/ sign_in_2fa_get_me_fail
  \/ sign_in_2fa_get_me_ok
  \/ sign_in_2fa_save

-----------------------------------------------------------------------------
(* _watermarks.py: the watermark store.  A dict is a function from its keys. *)

EmptyDict == <<>>

(* d[key] = value *)
Put(d, key, value) ==
  [k \in DOMAIN d \cup {key} |-> IF k = key THEN value ELSE d[k]]

(* the exception load_watermarks lets through, where its other results are *)
(* dicts: UnicodeDecodeError is neither a JSONDecodeError nor an OSError   *)
Raised == [py |-> "raise"]

load_watermarks ==
  CASE watermarks.kind = "absent"  -> EmptyDict
    [] watermarks.kind = "corrupt" -> EmptyDict
    [] watermarks.kind = "binary"  -> Raised
    [] watermarks.kind = "array"   -> PyList
    [] OTHER                       -> watermarks.data

save_watermarks(wm) == Json(wm)

(* the entry written for one update { chatId, messageId, chatName? } *)
watermark_entry(u, t) ==
  [lastMessageId |-> u.messageId,
   lastRunAt |-> t,
   chatName |-> Get(u, "chatName", NoName)]

(* the loop of set_watermarks_batch over updates[i..] *)
RECURSIVE batch_loop(_, _, _, _)
batch_loop(wm, updates, i, t) ==
  IF i > Len(updates)
    THEN wm
    ELSE batch_loop(Put(wm, updates[i].chatId, watermark_entry(updates[i], t)),
                    updates, i + 1, t)

(* Mutant: the batch is written into a new dict, not into the loaded one *)
set_watermarks_batch_fresh(updates) ==
  save_watermarks(batch_loop(EmptyDict, updates, 1, now))

(* set_watermarks_batch(updates): the new content of watermarks.json *)
set_watermarks_batch(updates) ==
  save_watermarks(batch_loop(load_watermarks, updates, 1, now))

(* set_watermark(chat_id, message_id, chat_name) *)
set_watermark(chat_id, message_id, chat_name) ==
  save_watermarks(Put(load_watermarks, chat_id,
                      [lastMessageId |-> message_id,
                       lastRunAt |-> now,
                       chatName |-> chat_name]))

(* get_watermark(chat_id) *)
get_watermark(chat_id) ==
  IF chat_id \in DOMAIN load_watermarks
    THEN load_watermarks[chat_id].lastMessageId
    ELSE NoId

clear_watermarks == Absent

(* Direct calls of the store's functions, as the tests make them *)

ChatIds == {"111", "222"}
MessageIds == {50, 200}
ChatNames == {<<"A", "l">>}

(* a call that returns: the files as found, the arguments, no output *)
Call(c, a) ==
  /\ pc = "idle"
  /\ cmd' = c
  /\ args' = a
  /\ pc' = "returned"
  /\ pre' = [session |-> session, pending |-> pending, watermarks |-> watermarks]
  /\ UNCHANGED <<session, pending, Remote, Hist, now, lcl, client, calls, out>>

call_set_watermark ==
  \E chat_id \in ChatIds, message_id \in MessageIds, chat_name \in ChatNames \cup {NoName} :
    /\ Call("set_watermark", [chat_id |-> chat_id, message_id |-> message_id,
                              chat_name |-> chat_name])
    /\ watermarks' = set_watermark(chat_id, message_id, chat_name)

(* an update dict { chatId, messageId, chatName? } *)
Updates ==
  [chatId : ChatIds, messageId : MessageIds]
    \cup [chatId : ChatIds, messageId : MessageIds, chatName : ChatNames]

MaxBatch == 2

UpdateLists == UNION {[1..n -> Updates] : n \in 0..MaxBatch}

call_set_watermarks_batch ==
  \E updates \in UpdateLists :
    /\ Call("set_watermarks_batch", [updates |-> updates])
    /\ watermarks' = set_watermarks_batch(updates)

call_clear_watermarks ==
  /\ Call("clear_watermarks", NoLocals)
  /\ watermarks' = clear_watermarks

-----------------------------------------------------------------------------
(* _client.py: load_session, classify_entity *)

(* load_session: the dict, an error() exit, or an exception it lets through: *)
(* only JSONDecodeError is caught, so UnicodeDecodeError of read_text and    *)
(* AttributeError of data.get on a value that is no dict escape              *)
load_session ==
  CASE session.kind = "absent"  -> [ok |-> FALSE, code |-> "NOT_CONNECTED"]
    [] session.kind = "corrupt" -> [ok |-> FALSE, code |-> "INVALID_SESSION"]
    [] session.kind = "binary"  -> [ok |-> FALSE, fault |-> "UnicodeDecodeError"]
    [] session.kind = "array"   -> [ok |-> FALSE, fault |-> "AttributeError"]
    [] OTHER ->
         IF \/ Get(session.data, "sessionString", EmptyCred) = EmptyCred
            \/ Get(session.data, "apiId", 0) = 0
            \/ Get(session.data, "apiHash", "") = ""
           THEN [ok |-> FALSE, code |-> "INVALID_SESSION"]
           ELSE [ok |-> TRUE, data |-> session.data]

classify_entity(entity) ==
  CASE entity.cls = "User"    -> IF entity.bot THEN "bot" ELSE "user"
    [] entity.cls = "Chat"    -> "group"
    [] entity.cls = "Channel" -> IF entity.broadcast THEN "channel" ELSE "supergroup"
    [] OTHER                  -> "unknown"

-----------------------------------------------------------------------------
(* Strings, as sequences of characters *)

LowerChar(c) ==
  CASE c = "A" -> "a" [] c = "B" -> "b" [] c = "N" -> "n" [] OTHER -> c

lower(str) == [i \in 1..Len(str) |-> LowerChar(str[i])]

(* sub in str *)
contains(str, sub) ==
  \E i \in 0..(Len(str) - Len(sub)) :
    \A j \in 1..Len(sub) : str[i + j] = sub[j]

(* str.lstrip("@") *)
RECURSIVE lstrip_at(_)
lstrip_at(str) ==
  IF str # <<>> /\ Head(str) = "@" THEN lstrip_at(Tail(str)) ELSE str

-----------------------------------------------------------------------------
(* The remote service: dialogs and messages *)

Max(S) == CHOOSE x \in S : \A y \in S : y <= x

(* the n largest elements of S, largest first *)
RECURSIVE newest(_, _)
newest(S, n) ==
  IF n <= 0 \/ S = {} THEN <<>> ELSE <<Max(S)>> \o newest(S \ {Max(S)}, n - 1)

reversed(q) == [i \in 1..Len(q) |-> q[Len(q) + 1 - i]]

(* client.get_messages(entity, limit, min_id): newest first, at most limit, *)
(* with min_id only ids above it                                           *)
get_messages(d, limit, min_id) ==
  newest({m \in msgs[d] : min_id = NoId \/ m > min_id}, limit)

(* an incoming or outgoing message arrives in dialog d *)
NewMessage(d) ==
  /\ pc = "idle"
  /\ top[d] < MaxMsgId
  /\ top' = [top EXCEPT ![d] = @ + 1]
  /\ msgs' = [msgs EXCEPT ![d] = @ \cup {top[d] + 1}]
  /\ \E u \in {unread[d], unread[d] + 1} :
       /\ u <= MaxUnread
       /\ unread' = [unread EXCEPT ![d] = u]
  /\ UNCHANGED <<Files, Hist, peer, now, pc, cmd, args, lcl, client, calls, out, pre>>

(* the user opens dialog d in an app *)
MarkRead(d) ==
  /\ pc = "idle"
  /\ unread[d] > 0
  /\ unread' = [unread EXCEPT ![d] = 0]
  /\ UNCHANGED <<Files, Hist, peer, top, msgs, now, pc, cmd, args, lcl, client, calls, out, pre>>

-----------------------------------------------------------------------------
(* digest.py *)

Limits == {1, 2}
NoFilter == <<>>
ChatFilters == {NoFilter, << <<"a", "L">> >>, << <<"@", "b", "o">> >>}

Invoke_digest ==
  \E f \in ChatFilters, l \in Limits, ir \in BOOLEAN, dr \in BOOLEAN :
    /\ f # NoFilter => (~ir /\ ~dr /\ l = 2)
    /\ Start("digest", [chat_filter |-> f, limit_per_chat |-> l,
                        include_read |-> ir, dry_run |-> dr], "dg_client")

(* get_client(); client.connect(); load_watermarks() *)
digest_connect ==
  /\ pc = "dg_client"
  /\ LET r == load_session IN
       IF ~r.ok
         THEN IF "fault" \in DOMAIN r
                THEN pc' = "crash" /\ UNCHANGED <<lcl, client, calls, out>>
                ELSE error(r.code) /\ UNCHANGED <<lcl, client, calls>>
         ELSE /\ calls' = Append(calls, "connect")
              /\ \/ /\ client' \in Connected(r.data.sessionString)
                    /\ IF ~is_dict(load_watermarks) /\ load_watermarks.py = "raise"
                         THEN pc' = "crash" /\ UNCHANGED lcl
                         ELSE /\ lcl' = [watermarks |-> load_watermarks]
                              /\ pc' = "dg_dialogs"
                    /\ UNCHANGED out
                 \/ /\ error("CONNECTION_ERROR")
                    /\ UNCHANGED <<lcl, client>>
  /\ UNCHANGED <<Files, Remote, Hist, Proc, now>>

digest_dialogs_fail ==
  /\ pc = "dg_dialogs"
  /\ calls' = Append(calls, "get_dialogs")
  /\ \E code \in {"FLOOD_WAIT", "API_ERROR"} : error(code)
  /\ UNCHANGED <<Files, Remote, Hist, Proc, now, lcl, client>>

(* chat_id = str(d.entity.id) (line 57) *)
chat_id_of(d) == ToString(peer[d])

(* does dialog d pass the chat filter (lines 63-74) *)
filter_match(chat_filter, d) ==
  LET chat_name == IF Entity[d].name # NoName THEN Entity[d].name
                                              ELSE <<"U", "n", "k", "n", "o", "w", "n">>
  IN \E i \in 1..Len(chat_filter) :
       LET f == chat_filter[i]
           fl == lower(f)
       IN \/ lower(chat_name) = fl
          \/ contains(lower(chat_name), fl)
          \/ /\ Entity[d].username # NoName
             /\ lower(lstrip_at(f)) = lower(Entity[d].username)

(* Mutant: only chats with unread messages are selected *)
selected_unread_only(chat_filter, include_read, wm, d) ==
  IF chat_filter # NoFilter THEN filter_match(chat_filter, d)
                            ELSE unread[d] > 0

(* Mutant: a watermarked chat is selected whatever the include-read flag *)
selected_watermarked(chat_filter, include_read, wm, d) ==
  LET has_watermark == is_dict(wm) /\ chat_id_of(d) \in DOMAIN wm
      has_unread == unread[d] > 0
  IN IF chat_filter # NoFilter
       THEN filter_match(chat_filter, d)
       ELSE has_unread \/ has_watermark

(* is dialog d selected for processing (lines 56-78) *)
selected(chat_filter, include_read, wm, d) ==
  LET has_watermark == is_dict(wm) /\ chat_id_of(d) \in DOMAIN wm
      has_unread == unread[d] > 0
  IN IF chat_filter # NoFilter
       THEN filter_match(chat_filter, d)
       ELSE ~(~has_unread /\ ~(include_read /\ has_watermark))

(* the entry appended to chats_to_process (lines 80-87) *)
chat_to_process(wm, d) ==
  [dialog |-> d,
   chatId |-> chat_id_of(d),
   chatName |-> IF Entity[d].name # NoName THEN Entity[d].name
                                           ELSE <<"U", "n", "k", "n", "o", "w", "n">>,
   unreadCount |-> unread[d],
   hasWatermark |-> is_dict(wm) /\ chat_id_of(d) \in DOMAIN wm,
   watermarkMessageId |-> IF is_dict(wm) /\ chat_id_of(d) \in DOMAIN wm
                            THEN Get(wm[chat_id_of(d)], "lastMessageId", NoId)
                            ELSE NoId]

(* does line 86 raise for dialog d: watermarks.get on a value that is no  *)
(* dict, or .get on an entry that is no dict                              *)
chat_to_process_raises(wm, d) ==
  \/ ~is_dict(wm)
  \/ chat_id_of(d) \in DOMAIN wm /\ ~is_dict(wm[chat_id_of(d)])

(* the orders in which the service may list the dialogs *)
DialogLists == {<<"d1", "d2">>, <<"d2", "d1">>}

RECURSIVE chats_to_process(_, _, _, _)
chats_to_process(dialogs, chat_filter, include_read, wm) ==
  IF dialogs = <<>>
    THEN <<>>
    ELSE (IF selected(chat_filter, include_read, wm, Head(dialogs))
            THEN <<chat_to_process(wm, Head(dialogs))>> ELSE <<>>)
         \o chats_to_process(Tail(dialogs), chat_filter, include_read, wm)

(* get_dialogs returned; select the chats; with none selected, finish *)
digest_dialogs_ok ==
  /\ pc = "dg_dialogs"
  /\ \E dialogs \in DialogLists :
       LET chats == chats_to_process(dialogs, args.chat_filter,
                                     args.include_read, lcl.watermarks)
       IN IF \E i \in 1..Len(dialogs) :
               /\ selected(args.chat_filter, args.include_read,
                           lcl.watermarks, dialogs[i])
               /\ chat_to_process_raises(lcl.watermarks, dialogs[i])
            THEN /\ calls' = Append(calls, "get_dialogs")
                 /\ pc' = "crash"
                 /\ UNCHANGED <<lcl, client, out>>
          ELSE IF chats = <<>>
            THEN /\ client' = [client EXCEPT !.conn = "closed"]
                 /\ calls' = calls \o <<"get_dialogs", "disconnect">>
                 /\ output([chats |-> <<>>, totalNewMessages |-> 0,
                            note |-> "No chats with new messages since last digest."])
                 /\ UNCHANGED lcl
            ELSE /\ lcl' = [watermarks |-> lcl.watermarks,
                            chats_to_process |-> chats,
                            i |-> 1,
                            digest_chats |-> <<>>,
                            watermark_updates |-> <<>>,
                            total_new |-> 0]
                 /\ calls' = Append(calls, "get_dialogs")
                 /\ pc' = "dg_fetch"
                 /\ UNCHANGED <<client, out>>
  /\ UNCHANGED <<Files, Remote, Hist, Proc, now>>

(* Mutant: the fetch is never given a min_id *)
fetch_min_id_dropped(wm_msg_id) == NoId

(* min_id of the fetch: only a truthy watermark is used (lines 110-112) *)
fetch_min_id(wm_msg_id) ==
  IF wm_msg_id # NoId /\ wm_msg_id # 0 THEN wm_msg_id ELSE NoId

(* format_message, as far as the digest reads it *)
format_message(m) == [id |-> m]

(* the highest message id of the batch (line 141) *)
max_msg_id(formatted) == Max({formatted[i].id : i \in 1..Len(formatted)})

(* get_messages raised FloodWaitError or another exception: the chat is *)
(* reported with the error text (lines 115-131)                        *)
digest_fetch_fail ==
  /\ pc = "dg_fetch"
  /\ lcl.i <= Len(lcl.chats_to_process)
  /\ LET chat == lcl.chats_to_process[lcl.i] IN
         lcl' = [lcl EXCEPT
                   !.digest_chats = Append(@,
                      [chat |-> [id |-> chat.chatId, name |-> chat.chatName,
                                 type |-> classify_entity(Entity[chat.dialog])],
                       error |-> TRUE,
                       messages |-> <<>>,
                       newCount |-> 0]),
                   !.i = @ + 1]
  /\ calls' = Append(calls, "get_messages")
  /\ UNCHANGED <<Files, Remote, Hist, Proc, now, pc, client, out>>

(* Mutant: the watermark of a chat is stored as soon as it has been fetched *)
digest_fetch_ok_stores ==
  /\ pc = "dg_fetch"
  /\ lcl.i <= Len(lcl.chats_to_process)
  /\ LET chat == lcl.chats_to_process[lcl.i]
         messages == get_messages(chat.dialog, args.limit_per_chat, NoId)
     IN /\ messages # <<>>
        /\ watermarks' = set_watermark(chat.chatId, Head(messages), chat.chatName)
        /\ lcl' = [lcl EXCEPT !.i = @ + 1]
  /\ calls' = Append(calls, "get_messages")
  /\ UNCHANGED <<session, pending, Remote, Hist, Proc, now, pc, client, out>>

(* get_messages returned (lines 133-159) *)
digest_fetch_ok ==
  /\ pc = "dg_fetch"
  /\ lcl.i <= Len(lcl.chats_to_process)
  /\ LET chat == lcl.chats_to_process[lcl.i]
         messages == get_messages(chat.dialog, args.limit_per_chat,
                                  fetch_min_id(chat.watermarkMessageId))
         rev == reversed(messages)
         formatted == [i \in 1..Len(rev) |-> format_message(rev[i])]
     IN IF messages = <<>>
          THEN lcl' = [lcl EXCEPT !.i = @ + 1]
          ELSE lcl' = [lcl EXCEPT
                   !.total_new = @ + Len(formatted),
                   !.digest_chats = Append(@,
                      [chat |-> [id |-> chat.chatId, name |-> chat.chatName,
                                 type |-> classify_entity(Entity[chat.dialog]),
                                 username |-> Entity[chat.dialog].username],
                       messages |-> formatted,
                       newCount |-> Len(formatted),
                       previousWatermark |-> chat.watermarkMessageId]),
                   !.watermark_updates = Append(@,
                      [chatId |-> chat.chatId,
                       messageId |-> max_msg_id(formatted),
                       chatName |-> chat.chatName]),
                   !.i = @ + 1]
  /\ calls' = Append(calls, "get_messages")
  /\ UNCHANGED <<Files, Remote, Hist, Proc, now, pc, client, out>>

(* Mutant: the dry-run flag is not looked at *)
stores_watermarks_always(dry_run, watermark_updates) == watermark_updates # <<>>

(* not dry_run and watermark_updates (line 164) *)
stores_watermarks(dry_run, watermark_updates) ==
  ~dry_run /\ watermark_updates # <<>>

(* after the loop: disconnect, store the watermarks, print (lines 161-173) *)
digest_finish ==
  /\ pc = "dg_fetch"
  /\ lcl.i > Len(lcl.chats_to_process)
  /\ client' = [client EXCEPT !.conn = "closed"]
  /\ calls' = Append(calls, "disconnect")
  /\ IF stores_watermarks(args.dry_run, lcl.watermark_updates)
       THEN watermarks' = set_watermarks_batch(lcl.watermark_updates)
       ELSE UNCHANGED watermarks
  /\ output([chats |-> lcl.digest_chats,
             chatCount |-> Len(lcl.digest_chats),
             totalNewMessages |-> lcl.total_new,
             watermarksUpdated |-> (~args.dry_run /\ Len(lcl.watermark_updates) > 0),
             dryRun |-> args.dry_run])
  /\ UNCHANGED <<session, pending, Remote, Hist, Proc, now, lcl>>

run_digest ==
  \/ digest_connect
  \/ digest_dialogs_fail
  \/ digest_dialogs_ok
  \/ digest_fetch_fail
  \/ digest_fetch_ok
  \/ digest_finish

-----------------------------------------------------------------------------
(* The clock *)

Tick ==
  /\ pc = "idle"
  /\ now < MaxTime
  /\ now' = now + 1
  /\ UNCHANGED <<Files, Remote, Hist, pc, cmd, args, lcl, client, calls, out, pre>>

-----------------------------------------------------------------------------

Init ==
  /\ session = Absent
  /\ pending = Absent
  /\ watermarks = Absent
  /\ now = 0
  /\ peer = [d \in Dialogs |-> DistinctPeers[d]]
  /\ top = [d \in Dialogs |-> 0]
  /\ msgs = [d \in Dialogs |-> {}]
  /\ unread = [d \in Dialogs |-> 0]
  /\ pc = "idle"
  /\ cmd = "none"
  /\ args = NoLocals
  /\ lcl = NoLocals
  /\ client = NoClient
  /\ calls = <<>>
  /\ out = <<>>
  /\ pre = [session |-> Absent, pending |-> Absent, watermarks |-> Absent]
  /\ expired = FALSE

(* The process has exited; the next one starts from scratch *)
Reap ==
  /\ Exited
  /\ pc' = "idle"
  /\ cmd' = "none"
  /\ args' = NoLocals
  /\ lcl' = NoLocals
  /\ client' = NoClient
  /\ calls' = <<>>
  /\ out' = <<>>
  /\ pre' = [session |-> Absent, pending |-> Absent, watermarks |-> Absent]
  /\ UNCHANGED <<Files, Remote, Hist, now>>

(* The running process is killed from outside: it is gone where it stood, *)
(* the files and the service as they were at that moment                  *)
Kill ==
  /\ pc # "idle"
  /\ ~Exited
  /\ pc' = "killed"
  /\ UNCHANGED <<Files, Remote, Hist, Proc, now, lcl, client, calls, out>>

NextLogin ==
  \/ Invoke_request_code
  \/ cmd_request_code
  \/ Invoke_sign_in
  \/ cmd_sign_in
  \/ Invoke_sign_in_2fa
  \/ cmd_sign_in_2fa
  \/ Reap
  \/ Tick

SpecLogin == Init /\ [][NextLogin]_vars

(* The login, with processes that may be killed *)
NextLoginKill == NextLogin \/ Kill

SpecLoginKill == Init /\ [][NextLoginKill]_vars

(* The watermark store under direct calls *)
NextWatermarks ==
  \/ call_set_watermark
  \/ call_set_watermarks_batch
  \/ call_clear_watermarks
  \/ Reap
  \/ Tick

SpecWatermarks == Init /\ [][NextWatermarks]_vars

(* The digest runs of an account that has logged in *)
InitDigest ==
  /\ session = Json([apiId |-> 11, apiHash |-> "ha", phone |-> "+100",
                     sessionString |-> 1, authenticatedAt |-> 0])
  /\ pending = Absent
  /\ watermarks = Absent
  /\ now = 0
  /\ peer \in {DistinctPeers, SamePeers}
  /\ top = [d \in Dialogs |-> 0]
  /\ msgs = [d \in Dialogs |-> {}]
  /\ unread = [d \in Dialogs |-> 0]
  /\ pc = "idle"
  /\ cmd = "none"
  /\ args = NoLocals
  /\ lcl = NoLocals
  /\ client = NoClient
  /\ calls = <<>>
  /\ out = <<>>
  /\ pre = [session |-> Absent, pending |-> Absent, watermarks |-> Absent]
  /\ expired = FALSE

NextDigest ==
  \/ Invoke_digest
  \/ run_digest
  \/ \E d \in Dialogs : NewMessage(d)
  \/ \E d \in Dialogs : MarkRead(d)
  \/ Reap
  \/ Tick

SpecDigest == InitDigest /\ [][NextDigest]_vars

-----------------------------------------------------------------------------
(* logout.py *)

Invoke_logout ==
  \E revoke \in BOOLEAN : Start("logout", [revoke |-> revoke], "lo_check")

(* lines 22-27: no file, nothing to do; with --revoke, get_client() inside *)
(* try / except Exception: an exception is swallowed, the SystemExit of    *)
(* error() is not                                                          *)
logout_check ==
  /\ pc = "lo_check"
  /\ IF session.kind = "absent"
       THEN output([success |-> TRUE,
                    note |-> "No session found, already logged out"])
       ELSE IF ~args.revoke
         THEN pc' = "lo_unlink" /\ UNCHANGED out
         ELSE LET r == load_session IN
                IF r.ok THEN pc' = "lo_connect" /\ UNCHANGED out
                ELSE IF "fault" \in DOMAIN r
                  THEN pc' = "lo_unlink" /\ UNCHANGED out
                  ELSE error(r.code)
  /\ UNCHANGED <<Files, Remote, Hist, Proc, now, lcl, client, calls>>

(* client.connect() *)
logout_connect ==
  /\ pc = "lo_connect"
  /\ calls' = Append(calls, "connect")
  /\ \/ /\ client' \in Connected(session.data.sessionString)
        /\ pc' = "lo_log_out"
     \/ /\ pc' = "lo_unlink"
        /\ UNCHANGED client
  /\ UNCHANGED <<Files, Remote, Hist, Proc, now, lcl, out>>

(* client.log_out(); client.disconnect(): a failing log_out skips the *)
(* disconnect                                                         *)
logout_log_out ==
  /\ pc = "lo_log_out"
  /\ \/ /\ calls' = calls \o <<"log_out", "disconnect">>
        /\ client' = [client EXCEPT !.conn = "closed"]
     \/ /\ calls' = Append(calls, "log_out")
        /\ UNCHANGED client
  /\ pc' = "lo_unlink"
  /\ UNCHANGED <<Files, Remote, Hist, Proc, now, lcl, out>>

(* SESSION_PATH.unlink(missing_ok=True); output *)
logout_unlink ==
  /\ pc = "lo_unlink"
  /\ session' = Absent
  /\ output([success |-> TRUE, revoked |-> args.revoke])
  /\ UNCHANGED <<pending, watermarks, Remote, Hist, Proc, now, lcl, client, calls>>

do_logout ==
  \/ logout_check
  \/ logout_connect
  \/ logout_log_out
  \/ logout_unlink

-----------------------------------------------------------------------------
(* The three files under writers other than these scripts: an editor, a   *)
(* restore, a disk fault.  Each content below is one the loaders can meet. *)

ValidSession ==
  Json([apiId |-> 11, apiHash |-> "ha", phone |-> "+100",
        sessionString |-> 1, authenticatedAt |-> 0])

ValidPending ==
  Json([phone |-> "+100", phoneCodeHash |-> "h1", sessionString |-> 1,
        apiId |-> 11, apiHash |-> "ha"])

SessionContents ==
  {ValidSession, Corrupt, Undecodable, NotObject,
   Json([phone |-> "+100"])}

PendingContents ==
  {ValidPending, Corrupt, Undecodable, NotObject,
   Json([phone |-> "+100"]),
   Json([phase |-> "2fa", phone |-> "+100"])}

WatermarkContents ==
  {Corrupt, Undecodable, NotObject,
   Json("111" :> PyInt),
   Json("111" :> [lastRunAt |-> 0])}

WriteFile ==
  /\ pc = "idle"
  /\ \/ session' \in SessionContents \ {session} /\ UNCHANGED <<pending, watermarks>>
     \/ pending' \in PendingContents \ {pending} /\ UNCHANGED <<session, watermarks>>
     \/ watermarks' \in WatermarkContents \ {watermarks} /\ UNCHANGED <<session, pending>>
  /\ expired' = FALSE
  /\ UNCHANGED <<Remote, now, pc, cmd, args, lcl, client, calls, out, pre>>

InitFiles ==
  /\ session = ValidSession
  /\ pending = ValidPending
  /\ watermarks = Absent
  /\ now = 0
  /\ peer = DistinctPeers
  /\ top = [d1 |-> 1, d2 |-> 0]
  /\ msgs = [d1 |-> {1}, d2 |-> {}]
  /\ unread = [d1 |-> 1, d2 |-> 0]
  /\ pc = "idle"
  /\ cmd = "none"
  /\ args = NoLocals
  /\ lcl = NoLocals
  /\ client = NoClient
  /\ calls = <<>>
  /\ out = <<>>
  /\ pre = [session |-> Absent, pending |-> Absent, watermarks |-> Absent]
  /\ expired = FALSE

NextFiles ==
  \/ WriteFile
  \/ Invoke_sign_in
  \/ cmd_sign_in
  \/ Invoke_sign_in_2fa
  \/ cmd_sign_in_2fa
  \/ Invoke_digest
  \/ run_digest
  \/ Invoke_logout
  \/ do_logout
  \/ Reap

SpecFiles == InitFiles /\ [][NextFiles]_vars

-----------------------------------------------------------------------------
(* json.dumps and json.loads on dicts whose keys need not be strings.     *)
(* A Python dict is given by its items in insertion order, each a pair    *)
(* <<key, value>> with the keys distinct; a JSON object text by its       *)
(* members in order, each a pair <<name, value>>.  The values used here    *)
(* are numbers, which both directions leave as they are.                  *)

StrKey(chars) == [str |-> chars]
IntKey(n) == [int |-> n]

(* the name json.dumps writes for a key: an int key becomes its decimal text *)
key_text(k) == IF "str" \in DOMAIN k THEN k.str ELSE ToString(k.int)

json_dumps(d) == [i \in 1..Len(d) |-> <<key_text(d[i][1]), d[i][2]>>]

(* Mutant: only the first member of the object is read *)
json_loads_first(text) ==
  {<<StrKey(text[i][1]), text[i][2]>> : i \in {i \in 1..Len(text) : i = 1}}

(* the items of the dict json.loads builds: every name is a str, and of *)
(* members with the same name the last one stays                        *)
json_loads(text) ==
  {<<StrKey(text[i][1]), text[i][2]>> :
     i \in {i \in 1..Len(text) :
              \A j \in (i + 1)..Len(text) : text[j][1] # text[i][1]}}

dict_items(d) == {d[i] : i \in 1..Len(d)}

MaxItems == 2

PyKeys == {StrKey("111"), StrKey("phone"), IntKey(111)}

PyDicts ==
  {d \in UNION {[1..n -> PyKeys \X {1, 2}] : n \in 0..MaxItems} :
     \A i, j \in 1..Len(d) : i # j => d[i][1] # d[j][1]}

(* save_watermarks(w) / save_pending(p): write_text(json.dumps(...)) *)
write_json(d) == [kind |-> "text", members |-> json_dumps(d)]

(* load_watermarks() / load_pending() on a file one of them wrote *)
read_json(file) == json_loads(file.members)

(* save_watermarks(w) or save_pending(p), then the matching load *)
store_save ==
  \E c \in {"save_watermarks", "save_pending"}, d \in PyDicts :
    /\ pc = "idle"
    /\ cmd' = c
    /\ args' = [value |-> d]
    /\ pc' = "st_load"
    /\ pre' = [session |-> session, pending |-> pending, watermarks |-> watermarks]
    /\ IF c = "save_watermarks"
         THEN watermarks' = write_json(d) /\ UNCHANGED pending
         ELSE pending' = write_json(d) /\ UNCHANGED watermarks
    /\ UNCHANGED <<session, Remote, Hist, now, lcl, client, calls, out>>

store_load ==
  /\ pc = "st_load"
  /\ lcl' = [result |-> IF cmd = "save_watermarks" THEN read_json(watermarks)
                                                   ELSE read_json(pending)]
  /\ pc' = "returned"
  /\ UNCHANGED <<Files, Remote, Hist, Proc, now, client, calls, out>>

(* save_session(api_id, api_hash, phone, session_string), then load_session *)
session_save ==
  \E api_id \in {0, 11}, api_hash \in {"", "ha"}, phone \in Phones,
     session_string \in {EmptyCred} \cup Creds :
    /\ pc = "idle"
    /\ cmd' = "save_session"
    /\ args' = [api_id |-> api_id, api_hash |-> api_hash,
                phone |-> phone, session_string |-> session_string]
    /\ pc' = "ss_load"
    /\ pre' = [session |-> session, pending |-> pending, watermarks |-> watermarks]
    /\ session' = save_session(api_id, api_hash, phone, session_string)
    /\ UNCHANGED <<pending, watermarks, Remote, Hist, now, lcl, client, calls, out>>

session_load ==
  /\ pc = "ss_load"
  /\ LET r == load_session IN
       IF r.ok
         THEN lcl' = [result |-> r.data] /\ pc' = "returned" /\ UNCHANGED out
         ELSE error(r.code) /\ UNCHANGED lcl
  /\ UNCHANGED <<Files, Remote, Hist, Proc, now, client, calls>>

(* the test is over: the next one gets a directory of its own, with no *)
(* file in it                                                          *)
Teardown ==
  /\ Exited
  /\ session' = Absent
  /\ pending' = Absent
  /\ watermarks' = Absent
  /\ pc' = "idle"
  /\ cmd' = "none"
  /\ args' = NoLocals
  /\ lcl' = NoLocals
  /\ client' = NoClient
  /\ calls' = <<>>
  /\ out' = <<>>
  /\ pre' = [session |-> Absent, pending |-> Absent, watermarks |-> Absent]
  /\ UNCHANGED <<Remote, Hist, now>>

NextStores ==
  \/ store_save
  \/ store_load
  \/ session_save
  \/ session_load
  \/ Teardown

SpecStores == Init /\ [][NextStores]_vars

-----------------------------------------------------------------------------
(* _sync.py: api_request, sync_messages *)

BatchSize == 500

(* api_request: what it returns for POST /telegram/messages with n        *)
(* messages.  An HTTPError or URLError becomes an {error, code} dict; the *)
(* counts of a success are the server's, and any of them may be missing.  *)
ApiResults(n) ==
  {[error |-> "HTTP 500", code |-> "HTTP_500"],
   [error |-> "Connection failed", code |-> "CONNECTION_ERROR"],
   [created |-> n, updated |-> 0, skipped |-> 0, chat |-> "chat"],
   [created |-> 0, updated |-> 1, skipped |-> n - 1],
   [skipped |-> n]}

(* the locals of sync_messages at its first line *)
sync_messages_enter(chat_telegram_id, messages) ==
  [chat_telegram_id |-> chat_telegram_id, messages |-> messages, i |-> 0,
   total_created |-> 0, total_updated |-> 0, total_skipped |-> 0,
   chat_info |-> None]

(* one round of the loop: the batch messages[i : i + 500] is posted.      *)
(* api_request returns a dict, or lets through what it does not catch     *)
(* (a response timeout, a body that is no JSON), or, at the first request *)
(* of a process that finds no token, prints NOT_CONNECTED and exits.      *)
sync_messages_request ==
  /\ pc = "sm_loop"
  /\ lcl.sm.i < Len(lcl.sm.messages)
  /\ LET sm == lcl.sm
         hi == IF sm.i + BatchSize < Len(sm.messages)
                 THEN sm.i + BatchSize ELSE Len(sm.messages)
         batch == SubSeq(sm.messages, sm.i + 1, hi)
         request(answer) == [call |-> "POST /telegram/messages",
                             chatTelegramId |-> sm.chat_telegram_id,
                             messages |-> batch,
                             answer |-> answer]
     IN \/ /\ calls = <<>>
           /\ error("NOT_CONNECTED")
           /\ UNCHANGED <<lcl, calls>>
        \/ /\ calls' = Append(calls, request([raised |-> TRUE]))
           /\ pc' = "crash"
           /\ UNCHANGED <<lcl, out>>
        \/ \E result \in ApiResults(Len(batch)) :
           /\ calls' = Append(calls, request(result))
           /\ IF "error" \in DOMAIN result
                  THEN /\ lcl' = [lcl EXCEPT !.result = result]
                       /\ pc' = lcl.ret
                  ELSE /\ lcl' = [lcl EXCEPT !.sm =
                            [sm EXCEPT
                               !.total_created = @ + Get(result, "created", 0),
                               !.total_updated = @ + Get(result, "updated", 0),
                               !.total_skipped = @ + Get(result, "skipped", 0),
                               !.chat_info = Get(result, "chat", @),
                               !.i = @ + BatchSize]]
                       /\ UNCHANGED pc
           /\ UNCHANGED out
  /\ UNCHANGED <<Files, Remote, Hist, Proc, now, client>>

(* the loop is over: the totals are returned *)
sync_messages_return ==
  /\ pc = "sm_loop"
  /\ lcl.sm.i >= Len(lcl.sm.messages)
  /\ lcl' = [lcl EXCEPT !.result =
               [created |-> lcl.sm.total_created,
                updated |-> lcl.sm.total_updated,
                skipped |-> lcl.sm.total_skipped,
                chat |-> lcl.sm.chat_info]]
  /\ pc' = lcl.ret
  /\ UNCHANGED <<Files, Remote, Hist, Proc, now, client, calls, out>>

sync_messages == sync_messages_request \/ sync_messages_return

(* format_msg_for_api, as far as the sync reads it *)
format_msg_for_api(m) == [telegramMessageId |-> ToString(m)]

(* the lengths of the lists sync_messages is called with directly *)
MsgCounts == {0, 1, BatchSize - 1, BatchSize, BatchSize + 1,
              2 * BatchSize, 2 * BatchSize + 1}

call_sync_messages ==
  \E n \in MsgCounts, chat_id \in ChatIds :
    /\ pc = "idle"
    /\ cmd' = "sync_messages"
    /\ args' = [chat_telegram_id |-> chat_id,
                messages |-> [k \in 1..n |-> format_msg_for_api(k)]]
    /\ lcl' = [ret |-> "returned", result |-> None,
               sm |-> sync_messages_enter(chat_id,
                        [k \in 1..n |-> format_msg_for_api(k)])]
    /\ pc' = "sm_loop"
    /\ calls' = <<>>
    /\ out' = <<>>
    /\ client' = NoClient
    /\ pre' = [session |-> session, pending |-> pending, watermarks |-> watermarks]
    /\ UNCHANGED <<Files, Remote, Hist, now>>

-----------------------------------------------------------------------------
(* sync-all.py *)

(* the Dialog object of dialog d: not a User, Chat or Channel itself *)
DialogObj(d) == [cls |-> "Dialog", name |-> Entity[d].name, entity |-> d]

Invoke_sync_all ==
  \E names \in ChatFilters, full \in BOOLEAN, l \in Limits :
    Start("sync-all", [chat_names |-> names, full |-> full, msg_limit |-> l],
          "sy_client")

(* get_client(); client.connect() (lines 100-105) *)
sync_connect ==
  /\ pc = "sy_client"
  /\ LET r == load_session IN
       IF ~r.ok
         THEN IF "fault" \in DOMAIN r
                THEN pc' = "crash" /\ UNCHANGED <<client, calls, out>>
                ELSE error(r.code) /\ UNCHANGED <<client, calls>>
         ELSE /\ calls' = Append(calls, [call |-> "connect"])
              /\ \/ /\ client' \in Connected(r.data.sessionString)
                    /\ pc' = "sy_dialogs"
                    /\ UNCHANGED out
                 \/ /\ error("CONNECTION_ERROR")
                    /\ UNCHANGED client
  /\ UNCHANGED <<Files, Remote, Hist, Proc, now, lcl>>

(* get_dialogs(limit=500): only FloodWaitError is caught (lines 110-113) *)
sync_dialogs ==
  /\ pc = "sy_dialogs"
  /\ calls' = Append(calls, [call |-> "get_dialogs"])
  /\ \/ \E dialogs \in DialogLists :
          /\ lcl' = [dialogs |-> dialogs]
          /\ pc' = "sy_chats"
          /\ UNCHANGED out
     \/ error("FLOOD_WAIT") /\ UNCHANGED lcl
     \/ pc' = "crash" /\ UNCHANGED <<lcl, out>>
  /\ UNCHANGED <<Files, Remote, Hist, Proc, now, client>>

(* the chat metadata is pushed (lines 115-128) *)
sync_chats ==
  /\ pc = "sy_chats"
  /\ LET chats_to_sync ==
           [i \in 1..Len(lcl.dialogs) |->
              [telegramId |-> chat_id_of(lcl.dialogs[i]),
               name |-> IF Entity[lcl.dialogs[i]].name # NoName
                          THEN Entity[lcl.dialogs[i]].name
                          ELSE <<"U", "n", "k", "n", "o", "w", "n">>,
               type |-> classify_entity(Entity[lcl.dialogs[i]]),
               username |-> Entity[lcl.dialogs[i]].username]]
         request == [call |-> "POST /telegram/chats", chats |-> chats_to_sync]
     IN \/ /\ error("NOT_CONNECTED")
           /\ UNCHANGED <<lcl, calls>>
        \/ /\ calls' = Append(calls, request)
           /\ pc' = "crash"
           /\ UNCHANGED <<lcl, out>>
        \/ /\ calls' = Append(calls, request)
           /\ \E code \in {"HTTP_500", "CONNECTION_ERROR"} : error(code)
           /\ UNCHANGED lcl
        \/ /\ calls' = Append(calls, request)
           /\ \E chat_result \in {[created |-> Len(chats_to_sync), updated |-> 0],
                                  [updated |-> 1]} :
                lcl' = [dialogs |-> lcl.dialogs, chat_result |-> chat_result]
           /\ pc' = "sy_targets"
           /\ UNCHANGED out
  /\ UNCHANGED <<Files, Remote, Hist, Proc, now, client>>

(* resolve_chat(client, chat_arg): the dialog whose entity it returns, or *)
(* None.  int(chat_arg) fails for a name; get_entity answers for an       *)
(* @username when entity_ok; the dialogs are searched when dialogs_ok,    *)
(* first for the name, then for a name containing it.                     *)
resolve_chat(chat_arg, entity_ok, dialogs, dialogs_ok) ==
  LET by_username == {d \in Dialogs :
                        /\ Entity[d].username # NoName
                        /\ lower(Entity[d].username) = lower(lstrip_at(chat_arg))}
      exact == {i \in 1..Len(dialogs) :
                  /\ Entity[dialogs[i]].name # NoName
                  /\ lower(Entity[dialogs[i]].name) = lower(chat_arg)}
      partial == {i \in 1..Len(dialogs) :
                    /\ Entity[dialogs[i]].name # NoName
                    /\ contains(lower(Entity[dialogs[i]].name), lower(chat_arg))}
      first(S) == dialogs[CHOOSE i \in S : \A j \in S : i <= j]
  IN IF Head(chat_arg) = "@" /\ entity_ok /\ by_username # {}
       THEN CHOOSE d \in by_username : TRUE
     ELSE IF ~dialogs_ok THEN None
     ELSE IF exact # {} THEN first(exact)
     ELSE IF partial # {} THEN first(partial)
     ELSE None

(* the answers of GET /telegram/chats?limit=200 that carry no error *)
ApiChats ==
  {[total |-> 0],
   [chats |-> <<[telegramId |-> "111"],
                [telegramId |-> "222", syncEnabled |-> FALSE]>>],
   [chats |-> <<[telegramId |-> "111", syncEnabled |-> TRUE],
                [telegramId |-> "222"]>>]}

(* the (name, entity) pairs of the dialogs kept by a filter *)
target_pairs(kept) ==
  [i \in 1..Len(kept) |->
     [chat_name |-> Entity[kept[i]].name, entity |-> kept[i]]]

(* the locals of do_sync when the loop over target_dialogs starts *)
sync_loop_enter(target_dialogs) ==
  [dialogs |-> lcl.dialogs, chat_result |-> lcl.chat_result,
   target_dialogs |-> target_dialogs, t |-> 1,
   total_synced |-> 0, chat_results |-> <<>>,
   sm |-> None, ret |-> "sy_pushed", result |-> None]

(* the target chats are determined (lines 131-158) *)
sync_targets ==
  /\ pc = "sy_targets"
  /\ IF args.chat_names # NoFilter
       THEN \E entity_ok \in BOOLEAN, dialogs \in DialogLists, dialogs_ok \in BOOLEAN :
              LET name == args.chat_names[1]
                  entity == resolve_chat(name, entity_ok, dialogs, dialogs_ok)
              IN /\ lcl' = sync_loop_enter(
                             IF entity # None
                               THEN <<[chat_name |-> name, entity |-> entity]>>
                               ELSE <<>>)
                 /\ calls' = Append(calls, [call |-> "resolve_chat"])
                 /\ pc' = "sy_read"
       ELSE LET request(answer) == [call |-> "GET /telegram/chats?limit=200",
                                    answer |-> answer]
                is_group(d) == classify_entity(DialogObj(d))
                                 \in {"supergroup", "group", "channel"}
            IN \/ /\ calls' = Append(calls, request([raised |-> TRUE]))
                  /\ pc' = "crash"
                  /\ UNCHANGED lcl
               \/ /\ calls' = Append(calls, request([error |-> "HTTP 500",
                                                     code |-> "HTTP_500"]))
                  /\ lcl' = sync_loop_enter(target_pairs(SelectSeq(lcl.dialogs, is_group)))
                  /\ pc' = "sy_read"
               \/ \E api_chats \in ApiChats :
                    LET chats == Get(api_chats, "chats", <<>>)
                        enabled_ids ==
                          {chats[i].telegramId : i \in
                             {j \in 1..Len(chats) :
                                Get(chats[j], "syncEnabled", TRUE)}}
                        enabled(d) == chat_id_of(d) \in enabled_ids
                    IN /\ calls' = Append(calls, request(api_chats))
                       /\ lcl' = sync_loop_enter(target_pairs(SelectSeq(lcl.dialogs, enabled)))
                       /\ pc' = "sy_read"
  /\ UNCHANGED <<Files, Remote, Hist, Proc, now, client, out>>

(* the messages of the next target chat are read (lines 164-188):        *)
(* FloodWaitError is slept out, any other exception skipped, and so is a *)
(* chat without messages; otherwise sync_messages is entered             *)
sync_read ==
  /\ pc = "sy_read"
  /\ lcl.t <= Len(lcl.target_dialogs)
  /\ LET target == lcl.target_dialogs[lcl.t]
         raw_msgs == get_messages(target.entity, args.msg_limit, NoId)
         messages == [i \in 1..Len(raw_msgs) |-> format_msg_for_api(raw_msgs[i])]
         read == [call |-> "get_messages", entity |-> target.entity]
     IN \/ /\ calls' = calls \o <<read, [call |-> "sleep"]>>
           /\ lcl' = [lcl EXCEPT !.t = @ + 1]
           /\ UNCHANGED pc
        \/ /\ calls' = Append(calls, read)
           /\ lcl' = [lcl EXCEPT !.t = @ + 1]
           /\ UNCHANGED pc
        \/ /\ calls' = Append(calls, read)
           /\ IF messages = <<>>
                THEN lcl' = [lcl EXCEPT !.t = @ + 1] /\ UNCHANGED pc
                ELSE /\ lcl' = [lcl EXCEPT !.sm =
                                  sync_messages_enter(chat_id_of(target.entity), messages)]
                     /\ pc' = "sm_loop"
  /\ UNCHANGED <<Files, Remote, Hist, Proc, now, client, out>>

(* sync_messages returned (lines 190-206) *)
sync_pushed ==
  /\ pc = "sy_pushed"
  /\ LET result == lcl.result
         target == lcl.target_dialogs[lcl.t]
     IN IF "error" \in DOMAIN result
          THEN lcl' = [lcl EXCEPT !.t = @ + 1]
          ELSE lcl' = [lcl EXCEPT
                 !.total_synced = @ + Get(result, "created", 0)
                                    + Get(result, "updated", 0),
                 !.chat_results = Append(@,
                    [chat |-> target.chat_name,
                     synced |-> Len(lcl.sm.messages),
                     created |-> Get(result, "created", 0),
                     updated |-> Get(result, "updated", 0),
                     skipped |-> Get(result, "skipped", 0)]),
                 !.t = @ + 1]
  /\ pc' = "sy_read"
  /\ UNCHANGED <<Files, Remote, Hist, Proc, now, client, calls, out>>

(* after the loop: disconnect, print (lines 208-214) *)
sync_finish ==
  /\ pc = "sy_read"
  /\ lcl.t > Len(lcl.target_dialogs)
  /\ client' = [client EXCEPT !.conn = "closed"]
  /\ calls' = Append(calls, [call |-> "disconnect"])
  /\ output([chatsSynced |-> Get(lcl.chat_result, "created", 0)
                               + Get(lcl.chat_result, "updated", 0),
             messagesSynced |-> lcl.total_synced,
             chatDetails |-> lcl.chat_results])
  /\ UNCHANGED <<Files, Remote, Hist, Proc, now, lcl>>

do_sync ==
  \/ sync_connect
  \/ sync_dialogs
  \/ sync_chats
  \/ sync_targets
  \/ sync_read
  \/ sync_messages
  \/ sync_pushed
  \/ sync_finish

NextSync ==
  \/ Invoke_sync_all
  \/ do_sync
  \/ call_sync_messages
  \/ \E d \in Dialogs : NewMessage(d)
  \/ Reap

SpecSync == InitDigest /\ [][NextSync]_vars

-----------------------------------------------------------------------------
(* Properties of the watermark store and of the digest *)

(* the dict a watermarks file holds *)
Stored(file) == IF file.kind = "json" THEN file.data ELSE EmptyDict

(* C1: in every step of every sequence of digest runs, each chat id that   *)
(* has a watermark keeps one, and its lastMessageId does not decrease.     *)
C1_WatermarkNeverDecreases ==
  [][\A k \in DOMAIN Stored(watermarks) :
       /\ k \in DOMAIN Stored(watermarks')
       /\ Stored(watermarks')[k].lastMessageId >= Stored(watermarks)[k].lastMessageId]_vars

C1_Witness ==
  /\ cmd = "digest"
  /\ pc = "exit0"
  /\ ~args.dry_run
  /\ \E k \in DOMAIN Stored(pre.watermarks) :
       Stored(watermarks)[k].lastMessageId > Stored(pre.watermarks)[k].lastMessageId
  /\ \E k \in DOMAIN Stored(pre.watermarks) :
       Stored(watermarks)[k] = Stored(pre.watermarks)[k]

BatchReturned == cmd = "set_watermarks_batch" /\ pc = "returned"

BatchIds == {args.updates[i].chatId : i \in 1..Len(args.updates)}

(* the last update of the batch for chat id k *)
LastUpdate(k) ==
  args.updates[Max({i \in 1..Len(args.updates) : args.updates[i].chatId = k})]

(* C2: after set_watermarks_batch(updates) the store holds the entries it  *)
(* held and those of the batch: an entry whose chat id is not in the batch *)
(* is as it was, an entry whose chat id is in the batch consists of the    *)
(* update's messageId, the time of the call and the update's chatName      *)
(* (None when the update has none), with nothing of the old entry left.    *)
C2_BatchFrame ==
  BatchReturned =>
    /\ watermarks.kind = "json"
    /\ DOMAIN watermarks.data = DOMAIN Stored(pre.watermarks) \cup BatchIds
    /\ \A k \in DOMAIN Stored(pre.watermarks) \ BatchIds :
         watermarks.data[k] = Stored(pre.watermarks)[k]
    /\ \A k \in BatchIds :
         watermarks.data[k] =
           [lastMessageId |-> LastUpdate(k).messageId,
            lastRunAt |-> now,
            chatName |-> IF "chatName" \in DOMAIN LastUpdate(k)
                           THEN LastUpdate(k).chatName ELSE NoName]

C2_Witness ==
  /\ BatchReturned
  /\ \E k \in DOMAIN Stored(pre.watermarks) : k \notin BatchIds
  /\ \E k \in DOMAIN Stored(pre.watermarks) \cap BatchIds :
       /\ Stored(pre.watermarks)[k].chatName # NoName
       /\ Stored(pre.watermarks)[k].lastRunAt # now
       /\ Stored(pre.watermarks)[k].lastMessageId # watermarks.data[k].lastMessageId
       /\ watermarks.data[k].chatName = NoName

-----------------------------------------------------------------------------
(* Properties of the login state machine *)

(* The states of section 4.1, read off the two files *)
LoginState(p, s) ==
  IF p.kind = "json"
    THEN IF Get(p.data, "phase", None) = "2fa" THEN "TwoFactorRequired"
                                                 ELSE "CodeSent"
    ELSE IF s.kind = "json" THEN "Authenticated" ELSE "NoSession"

EndedWith(c, code) == cmd = c /\ pc = "exit1" /\ out = <<ErrorObj(code)>>

TwoFactorSignalled ==
  cmd = "sign-in" /\ pc = "exit0" /\ out = <<[status |-> "2fa_required"]>>

LoginSucceeded ==
  /\ cmd \in {"sign-in", "sign-in-2fa"}
  /\ pc = "exit0"
  /\ Len(out) = 1
  /\ "success" \in DOMAIN out[1]

(* C3: when sign-in is given the right code and the service asks for a     *)
(* password, the process ends with the 2fa_required signal, the pending    *)
(* file is kept with phase "2fa" and the client's new credential string,   *)
(* every other field as it was, and session.json is not touched.           *)
C3_TwoFactorKeepsPending ==
  TwoFactorSignalled =>
    /\ args.code = "right"
    /\ pending.kind = "json"
    /\ pre.pending.kind = "json"
    /\ DOMAIN pending.data = DOMAIN pre.pending.data \cup {"sessionString", "phase"}
    /\ pending.data.phase = "2fa"
    /\ pending.data.sessionString = client.sess
    /\ \A k \in DOMAIN pre.pending.data \ {"sessionString", "phase"} :
         pending.data[k] = pre.pending.data[k]
    /\ session = pre.session

C3_Witness ==
  /\ TwoFactorSignalled
  /\ "phase" \notin DOMAIN pre.pending.data
  /\ pending.data.sessionString # pre.pending.data.sessionString

(* C4: when sign-in ends with INVALID_CODE the pending file is exactly as  *)
(* it was, so the next sign-in loads it again without a new request-code.  *)
C4_InvalidCodeKeepsPending ==
  EndedWith("sign-in", "INVALID_CODE") =>
    /\ pending = pre.pending
    /\ load_pending.ok
    /\ PendingKeysSignIn \subseteq DOMAIN load_pending.data

C4_Witness ==
  /\ EndedWith("sign-in", "INVALID_CODE")
  /\ pending.kind = "json"
  /\ args.code = "wrong"

(* C5: when sign-in ends with CODE_EXPIRED the pending file is deleted and *)
(* session.json is untouched; from then on, until a request-code has       *)
(* completed, the pending file stays absent and every sign-in and          *)
(* sign-in-2fa ends with NO_PENDING.                                       *)
C5_ExpiredCodeClearsPending ==
  /\ EndedWith("sign-in", "CODE_EXPIRED") =>
       pending = Absent /\ session = pre.session /\ expired
  /\ expired => pending = Absent
  /\ (expired /\ Exited /\ cmd \in {"sign-in", "sign-in-2fa"}
        /\ ~EndedWith("sign-in", "CODE_EXPIRED")) =>
       (pc = "exit1" /\ out = <<ErrorObj("NO_PENDING")>> /\ calls = <<>>
          /\ session = pre.session)

C5_Witness ==
  /\ expired
  /\ EndedWith("sign-in-2fa", "NO_PENDING")

(* C6, as claimed: after sign-in ends with CODE_EXPIRED or INVALID_CODE    *)
(* the pending state is discarded.                                         *)
C6_Original ==
  (EndedWith("sign-in", "CODE_EXPIRED") \/ EndedWith("sign-in", "INVALID_CODE")) =>
    pending = Absent

(* C6, amended: after CODE_EXPIRED the pending state is discarded and the  *)
(* machine is no longer in CodeSent or TwoFactorRequired; after            *)
(* INVALID_CODE the machine stays in the state it was in (CodeSent or      *)
(* TwoFactorRequired), its pending state kept.                             *)
C6_Amended ==
  /\ EndedWith("sign-in", "CODE_EXPIRED") =>
       /\ pre.pending.kind = "json"
       /\ LoginState(pending, session) \in {"NoSession", "Authenticated"}
       /\ LoginState(pending, session) = LoginState(Absent, pre.session)
  /\ EndedWith("sign-in", "INVALID_CODE") =>
       /\ LoginState(pending, session) \in {"CodeSent", "TwoFactorRequired"}
       /\ LoginState(pending, session) = LoginState(pre.pending, pre.session)

C6_Witness ==
  /\ EndedWith("sign-in", "INVALID_CODE")
  /\ LoginState(pending, session) = "CodeSent"

(* C7: a sign-in-2fa that loads a pending file whose phase marker is not   *)
(* "2fa" makes no remote call, changes neither file, and ends with         *)
(* NOT_IN_2FA.                                                             *)
C7_NotInTwoFactorPhase ==
  (cmd = "sign-in-2fa" /\ pre.pending.kind = "json"
     /\ Get(pre.pending.data, "phase", None) # "2fa") =>
    /\ calls = <<>>
    /\ client.conn = "none"
    /\ pending = pre.pending
    /\ session = pre.session
    /\ pc \in {"tf_load", "exit1"}
    /\ pc = "exit1" => out = <<ErrorObj("NOT_IN_2FA")>>

C7_Witness ==
  /\ EndedWith("sign-in-2fa", "NOT_IN_2FA")
  /\ "phase" \notin DOMAIN pre.pending.data

(* C8: when sign-in-2fa ends with INVALID_2FA the pending file is exactly  *)
(* as it was, in phase "2fa", so sign-in-2fa can be run again.             *)
C8_InvalidPasswordKeepsPending ==
  EndedWith("sign-in-2fa", "INVALID_2FA") =>
    /\ pending = pre.pending
    /\ load_pending.ok
    /\ in_2fa_phase(load_pending.data)
    /\ PendingKeys2fa \subseteq DOMAIN load_pending.data
    /\ LoginState(pending, session) = "TwoFactorRequired"

C8_Witness ==
  /\ EndedWith("sign-in-2fa", "INVALID_2FA")
  /\ args.password = "wrong"
  /\ pending.kind = "json"

(* C9: when sign-in or sign-in-2fa ends with the success object,           *)
(* session.json holds the phone, apiId and apiHash of the pending file the *)
(* process loaded and the client's final credential string, and the        *)
(* pending file is gone.                                                   *)
C9_SuccessPersistsSession ==
  LoginSucceeded =>
    /\ pending = Absent
    /\ session.kind = "json"
    /\ pre.pending.kind = "json"
    /\ DOMAIN session.data =
         {"apiId", "apiHash", "phone", "sessionString", "authenticatedAt"}
    /\ session.data.phone = pre.pending.data.phone
    /\ session.data.apiId = pre.pending.data.apiId
    /\ session.data.apiHash = pre.pending.data.apiHash
    /\ session.data.sessionString = client.sess
    /\ session.data.authenticatedAt \in 0..now

C9_Witness ==
  /\ LoginSucceeded
  /\ cmd = "sign-in-2fa"
  /\ pre.session.kind = "json"
  /\ session.data.phone # pre.session.data.phone
  /\ session.data.sessionString # pre.pending.data.sessionString

(* C10: pending.json is one slot, and when request-code ends with          *)
(* code_sent it holds exactly the five fields of the new attempt and no    *)
(* phase marker, whatever it held before.                                  *)
C10_RequestCodeOverwrites ==
  /\ pending.kind \in {"absent", "json"}
  /\ (cmd = "request-code" /\ pc = "exit0") =>
       /\ out = <<[status |-> "code_sent", phone |-> args.phone]>>
       /\ pending.kind = "json"
       /\ "phase" \notin DOMAIN pending.data
       /\ pending.data = [phone |-> args.phone,
                          phoneCodeHash |-> lcl.phone_code_hash,
                          sessionString |-> client.sess,
                          apiId |-> args.api_id,
                          apiHash |-> args.api_hash]

C10_Witness ==
  /\ cmd = "request-code"
  /\ pc = "exit0"
  /\ pre.pending.kind = "json"
  /\ Get(pre.pending.data, "phase", None) = "2fa"
  /\ pre.pending.data.phone # pending.data.phone

-----------------------------------------------------------------------------
(* Properties of the loaders under damaged files *)

AllPendingKeys == {"phone", "phoneCodeHash", "sessionString", "apiId", "apiHash"}

(* a file that is missing, unparseable, of the wrong shape or short of fields *)
DamagedPending(p) ==
  ~(p.kind = "json" /\ AllPendingKeys \subseteq DOMAIN p.data)

DamagedSession(f) ==
  ~(f.kind = "json"
      /\ {"apiId", "apiHash", "phone", "sessionString"} \subseteq DOMAIN f.data)

DamagedWatermarks(w) ==
  ~(w.kind = "json"
      /\ \A k \in DOMAIN w.data :
           is_dict(w.data[k]) /\ "lastMessageId" \in DOMAIN w.data[k])

(* the process has loaded a file that was damaged when it started *)
LoadedDamaged ==
  \/ cmd \in {"sign-in", "sign-in-2fa"} /\ DamagedPending(pre.pending)
  \/ cmd = "digest" /\ DamagedSession(pre.session)
  \/ cmd = "logout" /\ args.revoke /\ DamagedSession(pre.session)
  \/ cmd = "digest" /\ DamagedWatermarks(pre.watermarks)

(* C11: a process that loads a missing or damaged pending, session or      *)
(* watermark file never ends with an unhandled exception.                  *)
C11_DamagedFilesHandled ==
  (Exited /\ LoadedDamaged) => pc # "crash"

-----------------------------------------------------------------------------
(* Properties of writing a store and reading it back *)

StoreReadBack == cmd \in {"save_watermarks", "save_pending"} /\ pc = "returned"

SessionFields == {"apiId", "apiHash", "phone", "sessionString"}

SessionAsSaved ==
  /\ pc = "returned"
  /\ SessionFields \subseteq DOMAIN lcl.result
  /\ lcl.result.apiId = args.api_id
  /\ lcl.result.apiHash = args.api_hash
  /\ lcl.result.phone = args.phone
  /\ lcl.result.sessionString = args.session_string

-----------------------------------------------------------------------------
(* Properties of one digest run *)

(* the run went through its fetch loop and printed its result *)
DigestDone ==
  cmd = "digest" /\ pc = "exit0" /\ Len(out) = 1 /\ "chatCount" \in DOMAIN out[1]

(* the run found no chat to process and printed the empty result *)
DigestEmpty ==
  cmd = "digest" /\ pc = "exit0" /\ Len(out) = 1 /\ "note" \in DOMAIN out[1]

(* the watermark entry of chat id c is as it was when the run started *)
EntryUnchanged(c) ==
  /\ c \in DOMAIN Stored(watermarks) <=> c \in DOMAIN Stored(pre.watermarks)
  /\ c \in DOMAIN Stored(watermarks) =>
       Stored(watermarks)[c] = Stored(pre.watermarks)[c]

(* the watermark of chat id c is higher than it was when the run started *)
EntryAdvanced(c) ==
  /\ c \in DOMAIN Stored(watermarks)
  /\ c \in DOMAIN Stored(pre.watermarks) =>
       Stored(watermarks)[c].lastMessageId > Stored(pre.watermarks)[c].lastMessageId

Fetches == Len(SelectSeq(calls, LAMBDA c : c = "get_messages"))

Reported(i) == out[1].chats[i]

Failed(i) == "error" \in DOMAIN Reported(i)

(* C13: in a digest run that got through, every candidate was fetched; a   *)
(* chat whose fetch failed is reported with the error, no message and      *)
(* newCount 0, and its watermark entry is as it was; a chat reported with  *)
(* messages has, unless the run is a dry run, its watermark advanced.      *)
C13_FetchErrorDoesNotAbort ==
  DigestDone =>
    /\ Fetches = Len(lcl.chats_to_process)
    /\ \A i \in 1..Len(out[1].chats) :
         IF Failed(i)
           THEN /\ Reported(i).messages = <<>>
                /\ Reported(i).newCount = 0
                /\ EntryUnchanged(Reported(i).chat.id)
           ELSE ~args.dry_run => EntryAdvanced(Reported(i).chat.id)

(* C14, as claimed: a dry run that ends with its result has left the       *)
(* watermark file as it was and reports watermarksUpdated as false.        *)
C14_Original ==
  (cmd = "digest" /\ pc = "exit0" /\ args.dry_run) =>
    /\ watermarks = pre.watermarks
    /\ "watermarksUpdated" \in DOMAIN out[1]
    /\ out[1].watermarksUpdated = FALSE

(* C14, amended: throughout a dry run the watermark file is as it was; a   *)
(* dry run that processed at least one chat reports watermarksUpdated as   *)
(* false and dryRun as true, and one that found no chat to process prints  *)
(* the empty result, which has neither field.                              *)
C14_Amended ==
  (cmd = "digest" /\ args.dry_run) =>
    /\ watermarks = pre.watermarks
    /\ pc = "exit0" => (DigestDone \/ DigestEmpty)
    /\ DigestDone => (out[1].watermarksUpdated = FALSE /\ out[1].dryRun = TRUE)
    /\ DigestEmpty => DOMAIN out[1] = {"chats", "totalNewMessages", "note"}

C14_Witness ==
  /\ DigestDone
  /\ args.dry_run
  /\ out[1].totalNewMessages > 0
  /\ lcl.watermark_updates # <<>>

(* the chat ids of the candidates of the run *)
CandidateIds ==
  {lcl.chats_to_process[i].chatId : i \in 1..Len(lcl.chats_to_process)}

(* the messages a fetch for candidate i returns, the files and the service *)
(* being as they were when the run started                                 *)
Fetched(i) ==
  LET chat == lcl.chats_to_process[i]
  IN get_messages(chat.dialog, args.limit_per_chat,
                  fetch_min_id(chat.watermarkMessageId))

(* C15: in a digest run in which no fetch failed, a candidate whose fetch  *)
(* returned no message has no entry in the printed chat list, and its      *)
(* watermark entry is as it was.                                           *)
C15_NoNewMessagesNoUpdate ==
  (DigestDone /\ \A j \in 1..Len(out[1].chats) : ~Failed(j)) =>
    \A i \in 1..Len(lcl.chats_to_process) :
      Fetched(i) = <<>> =>
        /\ \A j \in 1..Len(out[1].chats) :
             Reported(j).chat.id # lcl.chats_to_process[i].chatId
        /\ EntryUnchanged(lcl.chats_to_process[i].chatId)

RECURSIVE SumNewCounts(_)
SumNewCounts(n) ==
  IF n = 0 THEN 0 ELSE Len(Reported(n).messages) + SumNewCounts(n - 1)

(* C16: after a digest run that is no dry run, every chat reported with    *)
(* messages has as its stored watermark the highest id among the messages  *)
(* reported for it, and totalNewMessages is the number of messages in the  *)
(* printed chat list.                                                      *)
C16_WatermarkIsMaxOfBatch ==
  (DigestDone /\ ~args.dry_run) =>
    /\ \A i \in 1..Len(out[1].chats) :
         ~Failed(i) =>
           /\ Reported(i).messages # <<>>
           /\ Reported(i).chat.id \in DOMAIN Stored(watermarks)
           /\ Stored(watermarks)[Reported(i).chat.id].lastMessageId =
                Max({Reported(i).messages[j].id : j \in 1..Len(Reported(i).messages)})
    /\ out[1].totalNewMessages = SumNewCounts(Len(out[1].chats))

(* the run has chosen its candidates, or found none *)
Chosen == cmd = "digest" /\ (pc = "dg_fetch" \/ DigestDone \/ DigestEmpty)

(* the dialogs the run processes *)
Candidates ==
  IF DigestEmpty THEN {}
  ELSE {lcl.chats_to_process[i].dialog : i \in 1..Len(lcl.chats_to_process)}

HasUnread(d) == unread[d] > 0

(* the store the run loaded has an entry under the chat id of dialog d *)
HasWatermark(d) == ToString(peer[d]) \in DOMAIN Stored(pre.watermarks)

-----------------------------------------------------------------------------
(* Properties of logout and of the connection *)

(* C19: when a logout process has ended, with or without --revoke and      *)
(* whatever session.json held, session.json does not exist; and a digest   *)
(* that starts with no session.json ends with NOT_CONNECTED, having made   *)
(* no remote call.                                                         *)
C19_LogoutRemovesSession ==
  /\ (cmd = "logout" /\ Exited) => session = Absent
  /\ (cmd = "digest" /\ Exited /\ pre.session = Absent) =>
       (EndedWith("digest", "NOT_CONNECTED") /\ calls = <<>>)

(* C20: when a request-code, sign-in, sign-in-2fa or digest process has    *)
(* ended, its connection to the service is not open.                       *)
C20_ConnectionClosedAtExit ==
  (Exited /\ cmd \in {"request-code", "sign-in", "sign-in-2fa", "digest"}) =>
    client.conn # "open"

-----------------------------------------------------------------------------
(* The watermark store under digest runs, which write it through         *)
(* set_watermarks_batch, and direct calls of set_watermark and           *)
(* clear_watermarks *)

NextCursor ==
  \/ Invoke_digest
  \/ run_digest
  \/ \E d \in Dialogs : NewMessage(d)
  \/ \E d \in Dialogs : MarkRead(d)
  \/ call_set_watermark
  \/ call_clear_watermarks
  \/ Reap

SpecCursor == InitDigest /\ [][NextCursor]_vars

(* The digest runs, with processes that may be killed *)
NextDigestKill ==
  \/ Invoke_digest
  \/ run_digest
  \/ \E d \in Dialogs : NewMessage(d)
  \/ \E d \in Dialogs : MarkRead(d)
  \/ Kill
  \/ Reap

SpecDigestKill == InitDigest /\ [][NextDigestKill]_vars

(* the step is a call of clear_watermarks *)
ClearStep == pc = "idle" /\ cmd' = "clear_watermarks"

(* C22: in every step of every sequence of set_watermark and               *)
(* set_watermarks_batch calls and digest runs, each chat id that has an    *)
(* entry in the store keeps one; a call of clear_watermarks leaves no      *)
(* store, whether or not there was one.                                    *)
C22_KeysStayUntilCleared ==
  [][IF ClearStep
       THEN watermarks' = Absent
       ELSE DOMAIN Stored(watermarks) \subseteq DOMAIN Stored(watermarks')]_vars

C22_Witness ==
  /\ cmd = "set_watermark"
  /\ pc = "returned"
  /\ \E k \in DOMAIN Stored(pre.watermarks) :
       /\ k # args.chat_id
       /\ Stored(pre.watermarks)[k].lastMessageId \notin MessageIds
       /\ Stored(watermarks)[k] = Stored(pre.watermarks)[k]

-----------------------------------------------------------------------------
(* Properties of the login's files under failures and kills *)

(* C27: session.json changes only in a step of a sign-in or sign-in-2fa    *)
(* process that ends it with the success object: no step of request-code,  *)
(* and no step of a sign-in or sign-in-2fa that fails, is killed or ends   *)
(* with the 2fa_required signal, creates or modifies it.                   *)
C27_SessionOnlyOnSuccess ==
  [][session' # session =>
       /\ cmd \in {"sign-in", "sign-in-2fa"}
       /\ pc' = "exit0"
       /\ Len(out') = 1
       /\ "success" \in DOMAIN out'[1]]_vars

C27_Witness ==
  /\ TwoFactorSignalled
  /\ pre.session.kind = "json"
  /\ session = pre.session
  /\ pending # pre.pending

(* the service has accepted the code or the password of this process *)
Accepted == cmd \in {"sign-in", "sign-in-2fa"} /\ "final_session" \in DOMAIN lcl

(* C28: from the moment the service has accepted the code or password of  *)
(* a sign-in or sign-in-2fa process, whether the process goes on, fails   *)
(* in get_me or is killed, pending.json or session.json exists.           *)
C28_LoginProgressKept ==
  Accepted => (pending # Absent \/ session # Absent)

(* C29: when a request-code process has ended without the code_sent       *)
(* result (an error exit or a kill), pending.json is as it was when the   *)
(* process started: unchanged, phase marker included, or still absent.    *)
C29_FailedRequestKeepsPending ==
  (cmd = "request-code" /\ Exited /\ pc # "exit0") => pending = pre.pending

C29_Witness ==
  /\ EndedWith("request-code", "FLOOD_WAIT")
  /\ pre.pending.kind = "json"
  /\ Get(pre.pending.data, "phase", None) = "2fa"
  /\ pending = pre.pending

-----------------------------------------------------------------------------
(* Properties of the digest's write *)

(* C25: a step of a digest process changes the watermark store only when *)
(* every candidate chat has been fetched or recorded as failed, and that *)
(* step ends the process: the store is written at most once in a run,    *)
(* and a run that ends earlier, killed or failed, has changed nothing.   *)
C25_SingleWriteAfterAllChats ==
  [][(cmd = "digest" /\ pc # "idle" /\ watermarks' # watermarks) =>
       /\ pc = "dg_fetch"
       /\ lcl.i > Len(lcl.chats_to_process)
       /\ Len(SelectSeq(calls, LAMBDA c : c = "get_messages"))
            = Len(lcl.chats_to_process)
       /\ pc' = "exit0"]_vars

C25_Witness ==
  /\ cmd = "digest"
  /\ pc = "exit0"
  /\ watermarks # pre.watermarks
  /\ Len(out[1].chats) = 2
  /\ \E i \in 1..2 : "error" \in DOMAIN out[1].chats[i]

(* the watermark a file holds for dialog d, 0 when it holds none *)
WatermarkOf(file, d) ==
  IF chat_id_of(d) \in DOMAIN Stored(file)
    THEN Stored(file)[chat_id_of(d)].lastMessageId
    ELSE 0

(* message m of dialog d is in the printed result *)
InOutput(d, m) ==
  \E i \in 1..Len(out[1].chats) :
    /\ Reported(i).chat.id = chat_id_of(d)
    /\ \E j \in 1..Len(Reported(i).messages) : Reported(i).messages[j].id = m

(* C26: after a digest run that is no dry run, on an account whose       *)
(* dialogs have different ids, every message of a chat with an id above  *)
(* the chat's watermark of before the run and not above its watermark of *)
(* after the run is among the messages printed for the chat.             *)
C26_NoMessageSkipped ==
  (cmd = "digest" /\ pc = "exit0" /\ ~args.dry_run /\ peer = DistinctPeers) =>
    \A d \in Dialogs : \A m \in msgs[d] :
      (m > WatermarkOf(pre.watermarks, d) /\ m <= WatermarkOf(watermarks, d)) =>
        InOutput(d, m)

-----------------------------------------------------------------------------
(* Properties of the sync *)

(* the requests of a direct sync_messages call, the batches they carried *)
(* one after the other, and the sum of one count over their answers      *)
RECURSIVE Batches(_)
Batches(reqs) ==
  IF reqs = <<>> THEN <<>> ELSE Head(reqs).messages \o Batches(Tail(reqs))

RECURSIVE SumOf(_, _)
SumOf(reqs, key) ==
  IF reqs = <<>> THEN 0
  ELSE Get(Head(reqs).answer, key, 0) + SumOf(Tail(reqs), key)

RequestFailed(r) == "error" \in DOMAIN r.answer \/ "raised" \in DOMAIN r.answer

(* the batching of sync_messages: requests of 1 to 500 messages that     *)
(* carry, in order, a prefix of the input; all of it when the call       *)
(* returns without an error; no request after a failed one               *)
Batching ==
  /\ \A i \in 1..Len(calls) :
       /\ Len(calls[i].messages) \in 1..500
       /\ calls[i].chatTelegramId = args.chat_telegram_id
       /\ RequestFailed(calls[i]) => i = Len(calls)
  /\ Len(Batches(calls)) <= Len(args.messages)
  /\ Batches(calls) = SubSeq(args.messages, 1, Len(Batches(calls)))

SumsReturned ==
  (pc = "returned" /\ "error" \notin DOMAIN lcl.result) =>
    /\ Batches(calls) = args.messages
    /\ \A i \in 1..Len(calls) : ~RequestFailed(calls[i])
    /\ lcl.result.created = SumOf(calls, "created")
    /\ lcl.result.updated = SumOf(calls, "updated")
    /\ lcl.result.skipped = SumOf(calls, "skipped")

(* C23: in a call of sync_messages the requests carry the messages in    *)
(* input order, at most 500 each, every message in at most one request   *)
(* and, when no request failed, in exactly one; the call then returns    *)
(* the sums of the created, updated and skipped counts of the answers;   *)
(* once a request has failed no further request is sent and the call has *)
(* returned the error of that request.                                   *)
C23_SyncMessagesBatches ==
  cmd = "sync_messages" =>
    /\ Batching
    /\ SumsReturned
    /\ \A i \in 1..Len(calls) :
         RequestFailed(calls[i]) =>
           (pc = "returned" /\ lcl.result = calls[i].answer)

(* the bulk-sync run has entered its loop over the target chats *)
InSyncLoop == cmd = "sync-all" /\ "target_dialogs" \in DOMAIN lcl

(* the reads and the pushes of the run that did not fail *)
Reads == SelectSeq(calls, LAMBDA c : c.call = "get_messages")
PushedOk(c) == c.call = "POST /telegram/messages" /\ ~RequestFailed(c)

(* C24: a bulk-sync run that has entered its loop over the target chats  *)
(* ends with a success result, whatever failed while a chat was read or  *)
(* pushed: every target chat has been read, in order, and the result     *)
(* lists one chat for each push that did not fail.                       *)
C24_BulkSyncContinues ==
  (InSyncLoop /\ Exited) =>
    /\ pc = "exit0"
    /\ Len(Reads) = Len(lcl.target_dialogs)
    /\ \A i \in 1..Len(Reads) : Reads[i].entity = lcl.target_dialogs[i].entity
    /\ Len(out[1].chatDetails) = Len(SelectSeq(calls, PushedOk))

(* the request for the enabled chats was answered with an error *)
EnabledChatsFailed ==
  \E i \in 1..Len(calls) :
    /\ calls[i].call = "GET /telegram/chats?limit=200"
    /\ "error" \in DOMAIN calls[i].answer

(* C30: in a bulk-sync run without --chat whose request for the enabled  *)
(* chats failed, the target chats are the dialogs whose entity is        *)
(* classified as group, supergroup or channel.                           *)
C30_FallbackToGroups ==
  (InSyncLoop /\ args.chat_names = NoFilter /\ EnabledChatsFailed) =>
    {lcl.target_dialogs[i].entity : i \in 1..Len(lcl.target_dialogs)}
      = {d \in Dialogs :
           classify_entity(Entity[d]) \in {"supergroup", "group", "channel"}}

-----------------------------------------------------------------------------
(* Properties of the output contract *)

Scripts == {"request-code", "sign-in", "sign-in-2fa", "digest", "logout"}

(* C21: when a request-code, sign-in, sign-in-2fa, digest or logout        *)
(* process has ended, it has printed exactly one JSON object: a result     *)
(* object if it ended with exit code 0, an {error, code} object otherwise. *)
C21_OneJsonObject ==
  (Exited /\ cmd \in Scripts) =>
    /\ Len(out) = 1
    /\ \/ pc = "exit0" /\ "error" \notin DOMAIN out[1]
       \/ pc = "exit1" /\ DOMAIN out[1] = {"error", "code"}

====
